---- MODULE Spec2Model ----
(***************************************************************************)
(* A model of artpub (src/extract.py): the pipeline that turns a list of   *)
(* article URLs into one EPUB book.                                        *)
(*                                                                         *)
(* Strings are sequences of atoms.  An atom is either one character that   *)
(* the code looks at ("/", ":", "?", "%", " ", "=", a hex digit after a    *)
(* "%") or an indivisible run of ordinary characters ("http", "x.html").   *)
(* Python's None and the empty string are both falsy in every test the     *)
(* code makes on them (if args.title, if args.epub, if not title); both    *)
(* are the empty sequence here.                                            *)
(***************************************************************************)
EXTENDS Integers, Sequences, FiniteSets, TLC

VARIABLES
    \* ---- process_articles -------------------------------------------
    args,          \* argparse.Namespace: [urls, epub, title]
    pc,            \* position in process_articles
    url_idx,       \* position of the `for url in urls` loop
    articles,      \* list of newspaper.Article
    art_idx,       \* position of the `for art in articles` loop
    soup,          \* the <img> elements of the article being rewritten
    img_idx,       \* position of the `for img in soup.find_all("img")` loop
    authors,       \* the set `authors`
    image_names,   \* dict img_url -> file name, as a set of pairs
    html_names,    \* dict html -> file name, as a set of pairs
    book,          \* epub.EpubBook: [title, language, authors, items, toc, spine]
    written,       \* what epub.write_epub received: <<>> or <<[path, book]>>
    error,         \* the exception that ended the run, "" when none
    page_log,      \* history: the status every page request got, in order
    fetch_log,     \* history: every call of fetch_image_data, in order
    \* ---- fetch_image_data -------------------------------------------
    img_url,       \* parameter img_url
    retry_count,   \* parameter retry_count
    timeout_duration, \* parameter timeout_duration
    attempts,      \* local `attempts`
    fpc,           \* position in fetch_image_data
    fresult,       \* the value returned
    requests_log,  \* history: every requests.get issued, with its outcome
    \* ---- the image reference resolution of process_articles ----------
    ref,           \* img["src"] as found in the markup
    base,          \* art.url
    resolved,      \* the img_url used for fetching and as dedup key
    rpc            \* "start" or "done"

pipeVars == <<args, pc, url_idx, articles, art_idx, soup, img_idx, authors,
              image_names, html_names, book, written, error, page_log, fetch_log>>
fetchVars == <<img_url, retry_count, timeout_duration, attempts, fpc, fresult,
               requests_log>>
resolveVars == <<ref, base, resolved, rpc>>
vars == <<pipeVars, fetchVars, resolveVars>>

\* the empty string, and None where a string is expected
Empty == <<>>
\* the None that fetch_image_data returns; image bytes are <<"bytes", kind>>
None == <<"None">>
Bytes(kind) == <<"bytes", kind>>

(***************************************************************************)
(* str helpers                                                             *)
(***************************************************************************)
Find(s, c) ==
    \* str.find: the first position of atom c (1-based), 0 when absent
    IF \E i \in 1..Len(s) : s[i] = c
    THEN CHOOSE i \in 1..Len(s) : s[i] = c /\ \A j \in 1..(i-1) : s[j] # c
    ELSE 0

RFind(s, c) ==
    IF \E i \in 1..Len(s) : s[i] = c
    THEN CHOOSE i \in 1..Len(s) : s[i] = c /\ \A j \in (i+1)..Len(s) : s[j] # c
    ELSE 0

RECURSIVE Split(_, _)
Split(s, c) ==
    \* str.split(c): the list of the pieces between the separators
    LET i == Find(s, c) IN
    IF i = 0 THEN <<s>>
    ELSE <<SubSeq(s, 1, i - 1)>> \o Split(SubSeq(s, i + 1, Len(s)), c)

RECURSIVE Join(_, _)
Join(parts, c) ==
    \* c.join(parts)
    IF Len(parts) = 0 THEN <<>>
    ELSE IF Len(parts) = 1 THEN parts[1]
    ELSE parts[1] \o <<c>> \o Join(Tail(parts), c)

RECURSIVE Replace(_, _, _)
Replace(s, c, r) ==
    \* str.replace(c, r) for a one-character c
    IF s = <<>> THEN <<>>
    ELSE (IF Head(s) = c THEN r ELSE <<Head(s)>>) \o Replace(Tail(s), c, r)

\* the one-character atoms that may not occur in a URL scheme
NotSchemeChars == {"/", ":", "?", "%", " ", "=", "_"}
\* atoms that spell a run beginning with the four characters h, t, t, p
HttpRuns == {"http", "https", "http_img.png"}
\* str.startswith("http")
StartsWithHttp(s) == Len(s) > 0 /\ s[1] \in HttpRuns

(***************************************************************************)
(* urllib.parse                                                            *)
(***************************************************************************)
CutAt(s, stops) ==
    \* the prefix of s before its first atom in stops
    IF \E i \in 1..Len(s) : s[i] \in stops
    THEN SubSeq(s, 1, (CHOOSE i \in 1..Len(s) :
                         s[i] \in stops /\ \A j \in 1..(i-1) : s[j] \notin stops) - 1)
    ELSE s

urlparse(url) ==
    \* scheme up to the first ":" when everything before it is a scheme
    \* character; netloc after "//" up to the next "/" or "?"; the query after
    \* the first "?".  No atom of the model is ";" or "#": params and fragment
    \* are empty.
    LET i == Find(url, ":")
        hasScheme == i > 1 /\ \A j \in 1..(i-1) : url[j] \notin NotSchemeChars
        scheme == IF hasScheme THEN SubSeq(url, 1, i - 1) ELSE <<>>
        rest1 == IF hasScheme THEN SubSeq(url, i + 1, Len(url)) ELSE url
        hasNetloc == Len(rest1) >= 2 /\ rest1[1] = "/" /\ rest1[2] = "/"
        afterSl == SubSeq(rest1, 3, Len(rest1))
        netloc == IF hasNetloc THEN CutAt(afterSl, {"/", "?"}) ELSE <<>>
        rest2 == IF hasNetloc THEN SubSeq(afterSl, Len(netloc) + 1, Len(afterSl))
                 ELSE rest1
        q == Find(rest2, "?")
    IN  [scheme |-> scheme,
         netloc |-> netloc,
         path |-> IF q = 0 THEN rest2 ELSE SubSeq(rest2, 1, q - 1),
         query |-> IF q = 0 THEN <<>> ELSE SubSeq(rest2, q + 1, Len(rest2))]

urlunparse(p) ==
    \* every scheme of the model (http, https) is in urllib's uses_netloc
    LET u1 == IF p.netloc # <<>>
                 \/ (p.scheme # <<>> /\ ~(Len(p.path) >= 2 /\ p.path[1] = "/" /\ p.path[2] = "/"))
              THEN <<"/", "/">> \o p.netloc
                   \o (IF p.path # <<>> /\ p.path[1] # "/" THEN <<"/">> ELSE <<>>)
                   \o p.path
              ELSE p.path
        u2 == IF p.scheme # <<>> THEN p.scheme \o <<":">> \o u1 ELSE u1
    IN  IF p.query # <<>> THEN u2 \o <<"?">> \o p.query ELSE u2

(***************************************************************************)
(* url_to_base_path and the resolution of an image reference               *)
(***************************************************************************)
url_to_base_path(url) ==
    LET parsed_url == urlparse(url)
        path_components == Split(parsed_url.path, "/")
        base_path == IF Len(path_components) > 1
                     THEN Join(SubSeq(path_components, 1, Len(path_components) - 1), "/")
                     ELSE parsed_url.path
    IN  urlunparse([parsed_url EXCEPT !.path = base_path \o <<"/">>])

ResolveImgUrl(src, art_url) ==
    \* process_articles: img_url = img["src"]; if not img_url.startswith("http"):
    \*     img_url = url_to_base_path(art.url) + "/" + img_url
    IF ~StartsWithHttp(src) THEN url_to_base_path(art_url) \o <<"/">> \o src
    ELSE src

(***************************************************************************)
(* The network as the code sees it                                         *)
(***************************************************************************)
\* the image URLs the pages of the model lead to, and the bodies a server
\* may answer with ("EMPTY" is a response with no bytes)
SharedImg == <<"http", ":", "/", "/", "c", "/", "s.png">>
Img1 == <<"http", ":", "/", "/", "h", "/", "a", "/", "/", "i1.png">>
Img2 == <<"http", ":", "/", "/", "h", "/", "a", "/", "/", "i2.png">>
Img3 == <<"https", ":", "/", "/", "g", "/", "/", "u.jpg">>
Contents(url) ==
    CASE url \in {SharedImg, Img1} -> {"PNG"}
      [] url = Img2 -> {"JPEG"}
      [] url = Img3 -> {"JPEG", "EMPTY"}
      [] OTHER -> {"PNG"}

\* requests.get either raises a RequestException or returns a response
RaisedKinds == {"Timeout", "ConnectionError"}
ResponseStatuses == {200, 204, 404, 503}
GetOutcomes(url) ==
    [kind : RaisedKinds, status : {0}, content : {"-"}]
    \cup [kind : {"response"}, status : ResponseStatuses, content : Contents(url)]

\* Response.raise_for_status raises HTTPError for a 4xx or 5xx status
raise_for_status(status) == 400 <= status /\ status < 600

\* the attempt ends in `except RequestException`
AttemptRaises(o) == o.kind # "response" \/ raise_for_status(o.status)

(***************************************************************************)
(* fetch_image_data, one loop iteration per step                           *)
(***************************************************************************)
DefaultRetryCount == 3
DefaultTimeout == 5
MaxRetryCount == 3
FetchUrls == {SharedImg, Img3}
Timeouts == {1, DefaultTimeout}

\* `while attempts < retry_count`
LoopRuns(a, rc) == a < rc
\* a variant that gives up one attempt early
RetriesExhaustedEarly(a, rc) == a + 1 >= rc
\* `if attempts >= retry_count` in the except clause
RetriesExhausted(a, rc) == a >= rc

AttemptSucceeds ==
    /\ fpc = "loop"
    /\ LoopRuns(attempts, retry_count)
    /\ \E o \in GetOutcomes(img_url) :
        /\ ~AttemptRaises(o)
        /\ requests_log' = Append(requests_log,
                [url |-> img_url, timeout |-> timeout_duration, outcome |-> o])
        /\ fresult' = Bytes(o.content)
    /\ fpc' = "returned"
    /\ UNCHANGED <<img_url, retry_count, timeout_duration, attempts>>

AttemptFails ==
    /\ fpc = "loop"
    /\ LoopRuns(attempts, retry_count)
    /\ \E o \in GetOutcomes(img_url) :
        /\ AttemptRaises(o)
        /\ requests_log' = Append(requests_log,
                [url |-> img_url, timeout |-> timeout_duration, outcome |-> o])
    /\ attempts' = attempts + 1
    /\ IF RetriesExhausted(attempts + 1, retry_count)
       THEN fpc' = "returned" /\ fresult' = None
       ELSE fpc' = "loop" /\ fresult' = fresult
    /\ UNCHANGED <<img_url, retry_count, timeout_duration>>

LoopNeverEntered ==
    \* the while condition is false: the function falls off its end
    /\ fpc = "loop"
    /\ ~LoopRuns(attempts, retry_count)
    /\ fpc' = "returned"
    /\ fresult' = None
    /\ UNCHANGED <<img_url, retry_count, timeout_duration, attempts, requests_log>>

\* the values one call can return, by the same loop
RECURSIVE FetchLoopResults(_, _, _)
FetchLoopResults(url, a, rc) ==
    IF LoopRuns(a, rc)
    THEN {Bytes(o.content) : o \in {x \in GetOutcomes(url) : ~AttemptRaises(x)}}
         \cup (IF \E o \in GetOutcomes(url) : AttemptRaises(o)
               THEN (IF RetriesExhausted(a + 1, rc) THEN {None}
                     ELSE FetchLoopResults(url, a + 1, rc))
               ELSE {})
    ELSE {None}

fetch_image_data(url) == FetchLoopResults(url, 0, DefaultRetryCount)

(***************************************************************************)
(* cleanup_file_name, infer_title, infer_file_name                         *)
(***************************************************************************)
HexDigits == {"0", "2", "5"}
\* the character a percent escape of the model's hex digits stands for
DecodeHex(h1, h2) ==
    CASE h1 = "2" /\ h2 = "0" -> " "
      [] h1 = "2" /\ h2 = "5" -> "%"
      [] h1 = "2" /\ h2 = "2" -> "dquote"
      [] h1 = "5" /\ h2 = "0" -> "P"
      [] h1 = "5" /\ h2 = "2" -> "R"
      [] h1 = "5" /\ h2 = "5" -> "U"
      [] h1 = "0" /\ h2 = "0" -> "NUL"
      [] h1 = "0" /\ h2 = "2" -> "STX"
      [] h1 = "0" /\ h2 = "5" -> "ENQ"

RECURSIVE unquote(_)
unquote(s) ==
    \* urllib.parse.unquote: "%" and two hex digits become one character,
    \* any other "%" stays
    IF s = <<>> THEN <<>>
    ELSE IF Len(s) >= 3 /\ s[1] = "%" /\ s[2] \in HexDigits /\ s[3] \in HexDigits
         THEN <<DecodeHex(s[2], s[3])>> \o unquote(SubSeq(s, 4, Len(s)))
         ELSE <<Head(s)>> \o unquote(Tail(s))

cleanup_file_name(file_name) ==
    LET f0 == IF Find(file_name, "%") # 0 THEN unquote(file_name) ELSE file_name
        f1 == Replace(f0, " ", <<"_">>)
        f2 == Replace(f1, ":", <<>>)
        f3 == Replace(f2, "/", <<>>)
        f4 == Replace(f3, "%", <<>>)
        f5 == Replace(f4, "?", <<>>)
    IN  Replace(f5, "=", <<>>)

infer_title(art, a) ==
    IF a.title # Empty THEN a.title
    ELSE IF art.title # Empty THEN art.title
    ELSE art.url

\* a variant that lets the title override name the file
infer_file_name_by_title(art, a) ==
    IF a.epub # Empty THEN a.epub
    ELSE cleanup_file_name(infer_title(art, a)) \o <<".epub">>

infer_file_name(art, a) ==
    IF a.epub # Empty THEN a.epub
    ELSE cleanup_file_name(IF art.title # Empty THEN art.title ELSE art.url)
         \o <<".epub">>

(***************************************************************************)
(* magic.Magic(mime=True).from_buffer and mimetypes.guess_extension        *)
(***************************************************************************)
from_buffer(data) ==
    CASE data = Bytes("PNG") -> "image/png"
      [] data = Bytes("JPEG") -> "image/jpeg"
      [] data = Bytes("EMPTY") -> "application/x-empty"

\* None (here Empty) for a type the mimetypes table does not hold
guess_extension(content_type) ==
    CASE content_type = "image/png" -> <<".png">>
      [] content_type = "image/jpeg" -> <<".jpg">>
      [] OTHER -> Empty

(***************************************************************************)
(* The pages behind the URLs, as newspaper extracts them                   *)
(***************************************************************************)
Url1 == <<"http", ":", "/", "/", "h", "/", "a", "/", "x.html">>
Url2 == <<"http", ":", "/", "/", "h", "/", "a", "/", "y.html">>
Url3 == <<"https", ":", "/", "/", "g">>
PageUrls == {Url1, Url2, Url3}

Elem(tag, has_src, src, other) ==
    [tag |-> tag, has_src |-> has_src, src |-> src, other |-> other]

\* title, authors, meta_lang and the elements of clean_top_node
Page(url) ==
    CASE url = Url1 ->
           [title |-> <<"A", ":", " ", "b">>, authors |-> <<"Alice", "Bob">>,
            meta_lang |-> "en", body |-> "text1",
            nodes |-> << Elem("script", FALSE, Empty, {}),
                         Elem("img", TRUE, <<"i1.png">>, {"alt"}),
                         Elem("img", TRUE, SharedImg, {"width"}),
                         Elem("img", FALSE, Empty, {"data-src"}) >>]
      [] url = Url2 ->
           [title |-> Empty, authors |-> <<"Alice">>,
            meta_lang |-> "en", body |-> "text2",
            nodes |-> << Elem("img", TRUE, <<"i2.png">>, {}),
                         Elem("svg", FALSE, Empty, {}),
                         Elem("img", TRUE, SharedImg, {"alt"}) >>]
      [] url = Url3 ->
           [title |-> <<"5", "0", "%", "2", "5", " ", "off">>,
            authors |-> <<"Carol", "Alice">>,
            meta_lang |-> "de", body |-> "text3",
            nodes |-> << Elem("img", TRUE, <<"u.jpg">>, {"alt"}),
                         Elem("img", TRUE, <<"u.jpg">>, {}) >>]

UnusedTags == {"script", "style", "noscript", "iframe", "source", "svg"}
clean_unused_tags(nodes, tags) == SelectSeq(nodes, LAMBDA e : e.tag \notin tags)

\* the Article object after download, parse and set_article_html
Article(url) ==
    [url |-> url, title |-> Page(url).title, authors |-> Page(url).authors,
     meta_lang |-> Page(url).meta_lang, body |-> Page(url).body,
     article_html |-> clean_unused_tags(Page(url).nodes, UnusedTags)]

(***************************************************************************)
(* process_articles                                                        *)
(***************************************************************************)
MaxUrls == 3
\* the status codes a page request is answered with
PageStatuses == {200, 204, 404}

RECURSIVE SeqsUpTo(_, _)
SeqsUpTo(S, n) ==
    IF n = 0 THEN {<<>>}
    ELSE LET shorter == SeqsUpTo(S, n - 1)
         IN  shorter \cup {Append(q, x) : q \in shorter, x \in S}

\* `if response.status_code == 200`
PageAccepted(status) == status = 200

\* a variant that takes no author for seen
AuthorSeenNever(auth, seen) == FALSE
\* `if auth not in authors`
AuthorSeen(auth, seen) == auth \in seen

\* the loop `for auth in art.authors`: the set and book.add_author
RECURSIVE AddAuthors(_, _, _)
AddAuthors(auths, seen, list) ==
    IF auths = <<>> THEN [seen |-> seen, list |-> list]
    ELSE IF ~AuthorSeen(Head(auths), seen)
         THEN AddAuthors(Tail(auths), seen \cup {Head(auths)}, Append(list, Head(auths)))
         ELSE AddAuthors(Tail(auths), seen, list)

\* soup.find_all("img"): the positions of the <img> elements, in order
RECURSIVE ImgPositionsFrom(_, _)
ImgPositionsFrom(nodes, i) ==
    IF i > Len(nodes) THEN <<>>
    ELSE (IF nodes[i].tag = "img" THEN <<i>> ELSE <<>>) \o ImgPositionsFrom(nodes, i + 1)
find_all_img(nodes) == ImgPositionsFrom(nodes, 1)

\* a variant that finds no URL registered
ImageKnownNever(url, names) == FALSE
\* `if img_url in image_names`
ImageKnown(url, names) == url \in DOMAIN names

\* "img/image_" + str(len(image_names)) + ext
ImageFileName(names, ext) ==
    <<"img", "/", "image_", ToString(Cardinality(DOMAIN names))>> \o ext

\* "article_" + str(len(html_names)) + ".html"
HtmlFileName(names) ==
    <<"article_", ToString(Cardinality(DOMAIN names)), ".html">>

\* dict assignment d[k] = v
DictSet(d, k, v) == [x \in DOMAIN d \cup {k} |-> IF x = k THEN v ELSE d[x]]

\* The items of book.items are records; `of` (the position of the article a
\* document was made from) and `url` (the URL an item was made from) stand
\* for the identity of the Python object and are read by no action.

\* a variant that takes every item for a document
IsAnyItem(item) == TRUE
\* isinstance(item, epub.EpubHtml); EpubNav is a subclass of EpubHtml
IsEpubHtml(item) == item.kind \in {"EpubHtml", "EpubNav"}

\* ["nav"] extended by the EpubHtml items of book.items
BuildSpine(items) == <<[kind |-> "nav"]>> \o SelectSeq(items, IsEpubHtml)

NoBook == [title |-> Empty, language |-> "", authors |-> <<>>, items |-> <<>>,
           toc |-> <<>>, spine |-> <<>>]

FetchIdle ==
    /\ img_url = Empty /\ retry_count = 0 /\ timeout_duration = 0
    /\ attempts = 0 /\ fpc = "idle" /\ fresult = None /\ requests_log = <<>>
ResolveIdle ==
    /\ ref = Empty /\ base = Empty /\ resolved = Empty /\ rpc = "idle"
PipeIdle ==
    /\ args = [urls |-> <<>>, epub |-> Empty, title |-> Empty]
    /\ pc = "idle" /\ url_idx = 0 /\ articles = <<>> /\ art_idx = 0
    /\ soup = <<>> /\ img_idx = 0 /\ authors = {} /\ image_names = <<>>
    /\ html_names = <<>> /\ book = NoBook /\ written = <<>> /\ error = ""
    /\ page_log = <<>> /\ fetch_log = <<>>

EpubNames == {Empty, <<"mybook.epub">>}
TitleOverrides == {Empty, <<"My", " ", "Book", "?">>}

Init ==
    /\ args \in [urls : SeqsUpTo(PageUrls, MaxUrls) \ {<<>>},
                 epub : EpubNames, title : TitleOverrides]
    /\ pc = "pages" /\ url_idx = 1 /\ articles = <<>> /\ art_idx = 0
    /\ soup = <<>> /\ img_idx = 0 /\ authors = {} /\ image_names = <<>>
    /\ html_names = <<>> /\ book = NoBook /\ written = <<>> /\ error = ""
    /\ page_log = <<>> /\ fetch_log = <<>>
    /\ FetchIdle /\ ResolveIdle

Crash(exc) ==
    /\ pc' = "crashed"
    /\ error' = exc

\* lines 282-315, a response with status 200
PageFetched ==
    /\ pc = "pages" /\ url_idx <= Len(args.urls)
    /\ \E status \in PageStatuses :
        /\ PageAccepted(status)
        /\ page_log' = Append(page_log, [url |-> args.urls[url_idx], status |-> status])
    /\ articles' = Append(articles, Article(args.urls[url_idx]))
    /\ url_idx' = url_idx + 1
    /\ UNCHANGED <<args, pc, art_idx, soup, img_idx, authors, image_names,
                   html_names, book, written, error, fetch_log>>

\* lines 282-286, a response with any other status: nothing is done
PageSkipped ==
    /\ pc = "pages" /\ url_idx <= Len(args.urls)
    /\ \E status \in PageStatuses :
        /\ ~PageAccepted(status)
        /\ page_log' = Append(page_log, [url |-> args.urls[url_idx], status |-> status])
    /\ url_idx' = url_idx + 1
    /\ UNCHANGED <<args, pc, articles, art_idx, soup, img_idx, authors, image_names,
                   html_names, book, written, error, fetch_log>>

\* line 284: requests.get raises and nothing catches it
PageRequestRaises ==
    /\ pc = "pages" /\ url_idx <= Len(args.urls)
    /\ Crash("RequestException")
    /\ UNCHANGED <<args, url_idx, articles, art_idx, soup, img_idx, authors,
                   image_names, html_names, book, written, page_log, fetch_log>>

\* lines 317-325
BookCreated ==
    /\ pc = "pages" /\ url_idx > Len(args.urls)
    /\ Len(articles) > 0
    /\ book' = [NoBook EXCEPT !.title = infer_title(articles[1], args),
                              !.language = articles[1].meta_lang]
    /\ authors' = {}
    /\ image_names' = <<>>
    /\ html_names' = <<>>
    /\ art_idx' = 1
    /\ pc' = "articles"
    /\ UNCHANGED <<args, url_idx, articles, soup, img_idx, written, error,
                   page_log, fetch_log>>

\* line 318 with an empty list: articles[0] raises IndexError
NoArticlesIndexError ==
    /\ pc = "pages" /\ url_idx > Len(args.urls)
    /\ Len(articles) = 0
    /\ Crash("IndexError")
    /\ UNCHANGED <<args, url_idx, articles, art_idx, soup, img_idx, authors,
                   image_names, html_names, book, written, page_log, fetch_log>>

\* lines 327-335
StartArticle ==
    /\ pc = "articles" /\ art_idx <= Len(articles)
    /\ LET r == AddAuthors(articles[art_idx].authors, authors, book.authors)
       IN  /\ authors' = r.seen
           /\ book' = [book EXCEPT !.authors = r.list]
    /\ soup' = articles[art_idx].article_html
    /\ img_idx' = 1
    /\ pc' = "imgs"
    /\ UNCHANGED <<args, url_idx, articles, art_idx, image_names, html_names,
                   written, error, page_log, fetch_log>>

CurImg == find_all_img(soup)[img_idx]
CurImgUrl == ResolveImgUrl(soup[CurImg].src, articles[art_idx].url)
InImgLoop == pc = "imgs" /\ img_idx <= Len(find_all_img(soup))
Rewritten(file_name) == Elem("img", TRUE, file_name, {})

\* lines 361-362
ImgWithoutSrc ==
    /\ InImgLoop
    /\ ~soup[CurImg].has_src
    /\ img_idx' = img_idx + 1
    /\ UNCHANGED <<args, pc, url_idx, articles, art_idx, soup, authors, image_names,
                   html_names, book, written, error, page_log, fetch_log>>

\* lines 337-345
ImgKnown ==
    /\ InImgLoop
    /\ soup[CurImg].has_src
    /\ ImageKnown(CurImgUrl, image_names)
    /\ soup' = [soup EXCEPT ![CurImg] = Rewritten(image_names[CurImgUrl])]
    /\ img_idx' = img_idx + 1
    /\ UNCHANGED <<args, pc, url_idx, articles, art_idx, authors, image_names,
                   html_names, book, written, error, page_log, fetch_log>>

\* lines 337-360, the fetch returned bytes of a type with an extension
ImgFetched ==
    /\ InImgLoop
    /\ soup[CurImg].has_src
    /\ ~ImageKnown(CurImgUrl, image_names)
    /\ \E img_data \in fetch_image_data(CurImgUrl) :
        /\ img_data # None
        /\ guess_extension(from_buffer(img_data)) # Empty
        /\ LET content_type == from_buffer(img_data)
               file_name == ImageFileName(image_names, guess_extension(content_type))
           IN  /\ image_names' = DictSet(image_names, CurImgUrl, file_name)
               /\ book' = [book EXCEPT !.items = Append(@,
                              [kind |-> "EpubItem", file_name |-> file_name,
                               media_type |-> content_type, content |-> img_data,
                               of |-> 0, url |-> CurImgUrl])]
               /\ soup' = [soup EXCEPT ![CurImg] = Rewritten(file_name)]
        /\ fetch_log' = Append(fetch_log, [url |-> CurImgUrl, result |-> img_data,
                                           art |-> art_idx, img |-> CurImg])
    /\ img_idx' = img_idx + 1
    /\ UNCHANGED <<args, pc, url_idx, articles, art_idx, authors, html_names,
                   written, error, page_log>>

\* lines 347-348: fetch_image_data returned None and from_buffer(None) raises
ImgFetchFailed ==
    /\ InImgLoop
    /\ soup[CurImg].has_src
    /\ ~ImageKnown(CurImgUrl, image_names)
    /\ None \in fetch_image_data(CurImgUrl)
    /\ fetch_log' = Append(fetch_log, [url |-> CurImgUrl, result |-> None,
                                       art |-> art_idx, img |-> CurImg])
    /\ soup' = [soup EXCEPT ![CurImg] = [@ EXCEPT !.other = {}]]
    /\ Crash("TypeError")
    /\ UNCHANGED <<args, url_idx, articles, art_idx, img_idx, authors, image_names,
                   html_names, book, written, page_log>>

\* lines 350-351: guess_extension returned None and str + None raises
ImgNoExtension ==
    /\ InImgLoop
    /\ soup[CurImg].has_src
    /\ ~ImageKnown(CurImgUrl, image_names)
    /\ \E img_data \in fetch_image_data(CurImgUrl) :
        /\ img_data # None
        /\ guess_extension(from_buffer(img_data)) = Empty
        /\ fetch_log' = Append(fetch_log, [url |-> CurImgUrl, result |-> img_data,
                                           art |-> art_idx, img |-> CurImg])
    /\ soup' = [soup EXCEPT ![CurImg] = [@ EXCEPT !.other = {}]]
    /\ Crash("TypeError")
    /\ UNCHANGED <<args, url_idx, articles, art_idx, img_idx, authors, image_names,
                   html_names, book, written, page_log>>

\* lines 364-372
FinishArticle ==
    /\ pc = "imgs" /\ img_idx > Len(find_all_img(soup))
    /\ LET html == [body |-> articles[art_idx].body, nodes |-> soup]
           html_name == HtmlFileName(html_names)
           eh == [kind |-> "EpubHtml", file_name |-> html_name,
                  media_type |-> "application/xhtml+xml", content |-> html,
                  of |-> art_idx, url |-> articles[art_idx].url]
       IN  /\ html_names' = DictSet(html_names, html, html_name)
           /\ book' = [book EXCEPT !.items = Append(@, eh), !.toc = Append(@, eh)]
    /\ art_idx' = art_idx + 1
    /\ pc' = "articles"
    /\ UNCHANGED <<args, url_idx, articles, soup, img_idx, authors, image_names,
                   written, error, page_log, fetch_log>>

\* lines 374-382
WriteEpub ==
    /\ pc = "articles" /\ art_idx > Len(articles)
    /\ LET final == [book EXCEPT
                       !.spine = BuildSpine(book.items),
                       !.items = book.items \o
                          <<[kind |-> "EpubNcx", file_name |-> <<"toc.ncx">>,
                             media_type |-> "application/x-dtbncx+xml",
                             content |-> [body |-> "", nodes |-> <<>>], of |-> 0,
                             url |-> Empty],
                            [kind |-> "EpubNav", file_name |-> <<"nav.xhtml">>,
                             media_type |-> "application/xhtml+xml",
                             content |-> [body |-> "", nodes |-> <<>>], of |-> 0,
                             url |-> Empty]>>]
       IN  /\ book' = final
           /\ written' = <<[path |-> infer_file_name(articles[1], args), book |-> final]>>
    /\ pc' = "written"
    /\ UNCHANGED <<args, url_idx, articles, art_idx, soup, img_idx, authors,
                   image_names, html_names, error, page_log, fetch_log>>

Next ==
    \/ (PageFetched /\ UNCHANGED <<fetchVars, resolveVars>>)
    \/ (PageSkipped /\ UNCHANGED <<fetchVars, resolveVars>>)
    \/ (PageRequestRaises /\ UNCHANGED <<fetchVars, resolveVars>>)
    \/ (BookCreated /\ UNCHANGED <<fetchVars, resolveVars>>)
    \/ (NoArticlesIndexError /\ UNCHANGED <<fetchVars, resolveVars>>)
    \/ (StartArticle /\ UNCHANGED <<fetchVars, resolveVars>>)
    \/ (ImgWithoutSrc /\ UNCHANGED <<fetchVars, resolveVars>>)
    \/ (ImgKnown /\ UNCHANGED <<fetchVars, resolveVars>>)
    \/ (ImgFetched /\ UNCHANGED <<fetchVars, resolveVars>>)
    \/ (ImgFetchFailed /\ UNCHANGED <<fetchVars, resolveVars>>)
    \/ (ImgNoExtension /\ UNCHANGED <<fetchVars, resolveVars>>)
    \/ (FinishArticle /\ UNCHANGED <<fetchVars, resolveVars>>)
    \/ (WriteEpub /\ UNCHANGED <<fetchVars, resolveVars>>)

Spec == Init /\ [][Next]_vars

(***************************************************************************)
(* fetch_image_data on its own: any url, retry_count and timeout           *)
(***************************************************************************)
FetchInit ==
    /\ img_url \in FetchUrls
    /\ retry_count \in 0..MaxRetryCount
    /\ timeout_duration \in Timeouts
    /\ attempts = 0
    /\ fpc = "loop"
    /\ fresult = None
    /\ requests_log = <<>>
    /\ PipeIdle /\ ResolveIdle

FetchNext ==
    \/ (AttemptSucceeds /\ UNCHANGED <<pipeVars, resolveVars>>)
    \/ (AttemptFails /\ UNCHANGED <<pipeVars, resolveVars>>)
    \/ (LoopNeverEntered /\ UNCHANGED <<pipeVars, resolveVars>>)

\* requests.get is given a timeout, so every attempt ends and the loop goes on
FetchSpec == FetchInit /\ [][FetchNext]_vars /\ WF_vars(FetchNext)

(***************************************************************************)
(* The resolution of an image reference on its own: any reference against  *)
(* any article URL                                                         *)
(***************************************************************************)
MaxDirDepth == 2

RECURSIVE DirPath(_)
DirPath(k) == IF k = 0 THEN <<>> ELSE <<"/", "d">> \o DirPath(k - 1)

BaseUrls ==
    { scheme \o <<":", "/", "/", "h">> \o DirPath(k) \o last \o query :
        scheme \in {<<"http">>, <<"https">>},
        k \in 0..MaxDirDepth,
        last \in {<<>>, <<"/">>, <<"/", "x.html">>},
        query \in {<<>>, <<"?", "q", "=", "1">>} }

Refs ==
    { <<"i.png">>, <<"d", "/", "i.png">>, <<"/", "i.png">>, <<"http_img.png">>,
      SharedImg, <<"https", ":", "/", "/", "c", "/", "s.png">>,
      <<"ftp", ":", "/", "/", "c", "/", "s.png">>, <<"/", "/", "c", "/", "s.png">> }

ResolveInit ==
    /\ ref \in Refs
    /\ base \in BaseUrls
    /\ resolved = Empty
    /\ rpc = "start"
    /\ PipeIdle /\ FetchIdle

ResolveRef ==
    /\ rpc = "start"
    /\ resolved' = ResolveImgUrl(ref, base)
    /\ rpc' = "done"
    /\ UNCHANGED <<ref, base>>

ResolveNext == ResolveRef /\ UNCHANGED <<pipeVars, fetchVars>>

ResolveSpec == ResolveInit /\ [][ResolveNext]_vars

(***************************************************************************)
(* What the claims speak about                                             *)
(***************************************************************************)
\* the asset items and the article documents of book.items, in order
AssetItems == SelectSeq(book.items, LAMBDA it : it.kind = "EpubItem")
Documents == SelectSeq(book.items, LAMBDA it : it.kind = "EpubHtml")

FetchCount(url) == Cardinality({i \in DOMAIN fetch_log : fetch_log[i].url = url})
AssetCount(url) == Cardinality({i \in DOMAIN AssetItems : AssetItems[i].url = url})

\* the <img src> references rewritten so far: those of every finished
\* document and those the loop over the current article has passed, each
\* with the absolute URL it resolved to and the src it carries now
RefsOf(a, nodes, upto) ==
    { [art |-> a, pos |-> find_all_img(nodes)[j],
       url |-> ResolveImgUrl(articles[a].article_html[find_all_img(nodes)[j]].src,
                             articles[a].url),
       now |-> nodes[find_all_img(nodes)[j]].src] :
        j \in { k \in 1..upto :
                  articles[a].article_html[find_all_img(nodes)[k]].has_src } }
RewrittenRefs ==
    UNION { RefsOf(Documents[d].of, Documents[d].content.nodes,
                   Len(find_all_img(Documents[d].content.nodes))) :
            d \in DOMAIN Documents }
    \cup (IF pc = "imgs" THEN RefsOf(art_idx, soup, img_idx - 1) ELSE {})

\* C1: references that resolve to the same absolute URL are fetched once,
\* give one asset item and carry the same local name; no URL is ever
\* fetched twice.
C1_FetchOncePerUrl ==
    /\ \A i \in DOMAIN fetch_log : FetchCount(fetch_log[i].url) = 1
    /\ \A r1 \in RewrittenRefs : \A r2 \in RewrittenRefs :
          r1.url = r2.url =>
            /\ FetchCount(r1.url) = 1
            /\ AssetCount(r1.url) = 1
            /\ r1.now = r2.now

\* two articles, one image of its own each and one shared absolute URL:
\* the written book holds 3 asset items and both documents name the shared
\* image alike
C1_Witness ==
    /\ pc = "written"
    /\ args.urls = <<Url1, Url2>>
    /\ Len(AssetItems) = 3
    /\ \E r1 \in RewrittenRefs : \E r2 \in RewrittenRefs :
          r1.art = 1 /\ r2.art = 2 /\ r1.url = SharedImg /\ r2.url = SharedImg
          /\ r1.now = r2.now

(***************************************************************************)
\* the path up to and including its last separator
C2_Directory(path) ==
    IF RFind(path, "/") = 0 THEN <<"/">> ELSE SubSeq(path, 1, RFind(path, "/"))
\* C2 as stated: a reference without a scheme resolves to the article URL's
\* scheme and host and to the path "directory of the article URL, ending in
\* exactly one separator, followed by the reference"; a reference with a
\* scheme is used unchanged.
C2_ResolvesIntoDirectory ==
    rpc = "done" =>
        IF urlparse(ref).scheme # Empty
        THEN resolved = ref
        ELSE /\ urlparse(resolved).scheme = urlparse(base).scheme
             /\ urlparse(resolved).netloc = urlparse(base).netloc
             /\ urlparse(resolved).path = C2_Directory(urlparse(base).path) \o ref

(***************************************************************************)
\* C3 as stated: a fetch that failed does not end the run, and leaves no
\* registry entry and no asset item for its URL.
C3_FailedFetchIsSkipped ==
    \A i \in DOMAIN fetch_log :
        fetch_log[i].result = None =>
            /\ pc # "crashed"
            /\ error = ""
            /\ fetch_log[i].url \notin DOMAIN image_names
            /\ AssetCount(fetch_log[i].url) = 0

(***************************************************************************)
\* a 2xx status
C4_Is2xx(status) == 200 <= status /\ status < 300
\* C4 as stated: the accepted pages are exactly the 2xx responses, in input
\* order; every URL gets its request in input order; and a run with an
\* accepted page that is over has written the package.
C4_PagePolicy ==
    /\ Len(page_log) <= Len(args.urls)
    /\ \A i \in DOMAIN page_log : page_log[i].url = args.urls[i]
    /\ LET ok == SelectSeq(page_log, LAMBDA e : C4_Is2xx(e.status))
       IN  /\ Len(articles) = Len(ok)
           /\ \A i \in DOMAIN articles : articles[i].url = ok[i].url
    /\ (pc = "crashed" /\ error # "RequestException") => Len(articles) = 0

(***************************************************************************)
\* C5 as stated: with no article processed the run ends in the error
\* "no articles processed"; it never indexes the empty list and writes
\* nothing.
C5_NoArticlesIsReported ==
    /\ error # "IndexError"
    /\ (pc \in {"crashed", "written"} /\ Len(articles) = 0
          /\ error # "RequestException")
         => (error = "no articles processed" /\ written = <<>>)

(***************************************************************************)
\* a response with a 2xx status
C6_Successful(o) == o.kind = "response" /\ 200 <= o.status /\ o.status < 300
\* what holds of the attempts made so far and of the value returned
C6_FetchSafety ==
    /\ Len(requests_log) <= retry_count
    /\ \A i \in 1..(Len(requests_log) - 1) : ~C6_Successful(requests_log[i].outcome)
    /\ fpc = "loop" =>
          \A i \in DOMAIN requests_log : ~C6_Successful(requests_log[i].outcome)
    /\ (fpc = "returned" /\ fresult # None) =>
          /\ Len(requests_log) >= 1
          /\ C6_Successful(requests_log[Len(requests_log)].outcome)
          /\ fresult = Bytes(requests_log[Len(requests_log)].outcome.content)
    /\ (fpc = "returned" /\ fresult = None) =>
          /\ Len(requests_log) = retry_count
          /\ \A i \in DOMAIN requests_log : ~C6_Successful(requests_log[i].outcome)
C7_FirstUrl ==
    page_log[CHOOSE i \in DOMAIN page_log :
                /\ page_log[i].status = 200
                /\ \A j \in 1..(i - 1) : page_log[j].status # 200].url
C7_FirstAccepted == [title |-> Page(C7_FirstUrl).title, url |-> C7_FirstUrl]
\* percent-decoded, spaces turned into "_", and : / % ? = dropped
C7_Sanitized(str) ==
    SelectSeq([i \in DOMAIN unquote(str) |->
                   IF unquote(str)[i] = " " THEN "_" ELSE unquote(str)[i]],
              LAMBDA c : c \notin {":", "/", "%", "?", "="})

RECURSIVE C8_AuthorsOf(_)
C8_AuthorsOf(n) == IF n = 0 THEN <<>> ELSE C8_AuthorsOf(n - 1) \o articles[n].authors
C8_Seen == C8_AuthorsOf(IF pc = "imgs" THEN art_idx ELSE art_idx - 1)
C8_First(seq, x) == CHOOSE i \in DOMAIN seq : seq[i] = x /\ \A j \in 1..(i-1) : seq[j] # x

\* C8: book.authors holds every author seen exactly once, in the order of
\* first appearance.
C8_AuthorsUniqueInOrder ==
    /\ \A i \in DOMAIN book.authors : \A j \in DOMAIN book.authors :
          book.authors[i] = book.authors[j] => i = j
    /\ pc \in {"articles", "imgs", "written"} =>
          /\ {book.authors[i] : i \in DOMAIN book.authors}
               = {C8_Seen[i] : i \in DOMAIN C8_Seen}
          /\ \A i \in DOMAIN book.authors : \A j \in DOMAIN book.authors :
                i < j => C8_First(C8_Seen, book.authors[i])
                           < C8_First(C8_Seen, book.authors[j])

\* the authors came in as Alice, Bob, Alice and the book lists Alice, Bob
C8_Witness ==
    /\ pc = "written"
    /\ C8_Seen = <<"Alice", "Bob", "Alice">>
    /\ written[1].book.authors = <<"Alice", "Bob">>

(***************************************************************************)
\* C9 as stated: the k-th document is article_(k-1).html and no two
\* documents share a file name.
C9_SequentialDocumentIds ==
    /\ \A k \in DOMAIN Documents :
          Documents[k].file_name = <<"article_", ToString(k - 1), ".html">>
    /\ \A i \in DOMAIN Documents : \A j \in DOMAIN Documents :
          Documents[i].file_name = Documents[j].file_name => i = j

(***************************************************************************)
\* C10: the spine written is the navigation item and then the document of
\* each article, once, in processing order.
C10_SpineIsNavThenDocuments ==
    pc = "written" =>
        LET spine == written[1].book.spine
        IN  /\ Len(spine) = Len(articles) + 1
            /\ spine[1].kind = "nav"
            /\ \A i \in DOMAIN articles :
                  /\ spine[i + 1].kind = "EpubHtml"
                  /\ spine[i + 1].of = i
                  /\ spine[i + 1].url = articles[i].url

\* a book written with asset items before, between and without documents
C10_Witness ==
    /\ pc = "written"
    /\ Len(articles) = 3
    /\ \E i \in DOMAIN book.items : \E j \in DOMAIN book.items :
        \E k \in DOMAIN book.items : \E l \in DOMAIN book.items :
          /\ i < j /\ j < k /\ k + 1 = l
          /\ book.items[i].kind = "EpubHtml" /\ book.items[j].kind = "EpubItem"
          /\ book.items[k].kind = "EpubHtml" /\ book.items[l].kind = "EpubHtml"

====
